---- MODULE Spec2Model ----
(***************************************************************************)
(* The Twilio <-> agent stream bridge of postak/lead-agent:                *)
(* TwilioAgentStream (src/src/handlers/twilio_stream_handler.py) with the  *)
(* helpers of src/src/core/utils.py and the end_call port of               *)
(* src/src/services/telephony_service.py.                                  *)
(*                                                                         *)
(* One bridge is three asyncio tasks on one event loop: manage_stream      *)
(* (mainPc), agent_to_twilio_messaging (agentPc) and                       *)
(* twilio_to_agent_messaging (twilioPc).  A step of the model is the code  *)
(* a task runs between two suspension points.  The suspension points are   *)
(* the receives (websocket.receive_*, the async for over live_events) and  *)
(* the awaited end_call; the websocket sends are taken not to suspend.     *)
(*                                                                         *)
(* The collaborators outside the repository behave as follows.             *)
(*  - Starlette WebSocket: after the application has sent a close, every   *)
(*    further send or close raises RuntimeError and every receive raises;  *)
(*    after the peer has gone, receive raises WebSocketDisconnect and a    *)
(*    send or close may raise or be swallowed.                             *)
(*  - live_events is an async generator: leaving `async for` with break    *)
(*    does not close it, iterating it again resumes it, and iterating an   *)
(*    exhausted generator raises StopAsyncIteration without suspending.    *)
(*  - end_call catches TwilioException only, so an aiohttp error raises.   *)
(***************************************************************************)
EXTENDS Integers, Sequences, FiniteSets, TLC

(* Bounds of the model. *)
MaxEvents == 3
MaxBridgeEvents == 3
MaxFrames == 2
MaxHandshakeFrames == 2
MaxValueLen == 2
MaxSamples == 4
MaxOtherSamples == 1
MaxConversions == 3

(* WebSocket close codes used by manage_stream. *)
CloseNormal == 1000
CloseProtocolError == 1002
CloseInternalError == 1011

VARIABLES
  mainPc,       \* manage_stream: handshake, start_session, wait, cancel, finally,
                \* finally_end_call, except_end_call, done
  agentPc,      \* agent_to_twilio_messaging: idle, iter, hangup, spinning, done,
                \* cancelling (cancel requested, not yet delivered), cancelled
  twilioPc,     \* twilio_to_agent_messaging: idle, start, recv, done, cancelling,
                \* cancelled
  stream_sid,
  call_sid,
  lead_info,    \* "{}" (the initial empty dict), "None", or a decoded record's id
  terminate_call,
  initial_prompt_sent_to_agent,
  live_request_queue,  \* "None", "open", "closed"
  agent_session,       \* "None" or a session id
  agent_session_closed,
  session_started,     \* the session ids start_agent_session was called with
  turn_counter,
  appClosed,    \* the application has sent a websocket close
  peerGone,     \* the transport has disconnected
  out,          \* what the bridge did on the transport and the control port, in order
  sink,         \* what the bridge put on live_request_queue, in order
  lastEvent,    \* the inference event the agent pump consumed last
  lastFrame,    \* the transport frame read last, by the handshake or the twilio pump
  nEvents,
  nFrames,
  nHandshake,   \* frames skipped by the handshake loop so far
  raised,       \* manage_stream ended by raising
  end_call_result,  \* the provider's response to the last end_call, and its outcome
  phaseLog,     \* the phases the bridge has been in, in order
  bridges,      \* two bridges side by side: the fields of each handler instance
  session_service,  \* the ids of the sessions held by the runner both bridges share
  codec,        \* a lead record, its lead_info blob and what the bridge decodes from it
  audio         \* PCM chunks and what the two transcoders of utils.py make of them

callVars == <<mainPc, agentPc, twilioPc, stream_sid, call_sid, lead_info,
          terminate_call, initial_prompt_sent_to_agent, live_request_queue,
          agent_session, agent_session_closed, session_started, turn_counter,
          appClosed, peerGone, out, sink, lastEvent, lastFrame, nEvents,
          nFrames, nHandshake, raised, end_call_result, phaseLog>>
bridgeVars == <<bridges, session_service>>
utilVars == <<codec, audio>>
vars == <<callVars, bridgeVars, utilVars>>

(***************************************************************************)
(* Phases of the spec's state machine, read off manage_stream's position.  *)
(***************************************************************************)
Phase(pc) ==
  CASE pc = "handshake" -> "AWAITING_HANDSHAKE"
    [] pc \in {"start_session", "wait"} -> "ACTIVE"
    [] pc = "done" -> "CLOSED"
    [] OTHER -> "DRAINING"

EnterFrom(log, pc) ==
  IF Phase(pc) = log[Len(log)] THEN log
  ELSE Append(log, Phase(pc))

Enter(pc) == EnterFrom(phaseLog, pc)

(***************************************************************************)
(* Entries of `out`: frames sent on the websocket, closes of the websocket *)
(* and end_call requests; `by` is the task that did it.                    *)
(***************************************************************************)
Act(t, n, sid, by) == [t |-> t, n |-> n, sid |-> sid, by |-> by]
MarkFrame(n) == Act("mark", n, stream_sid, "agent")
ClearFrame == Act("clear", 0, stream_sid, "agent")
MediaFrame == Act("media", 0, stream_sid, "agent")
EndCall(sid, by) == Act("end_call", 0, sid, by)
WsClose(code, by) == Act("close", code, "", by)

(***************************************************************************)
(* Inputs.                                                                 *)
(***************************************************************************)
StreamSids == {"", "MZ1"}
CallSids == {"", "CA1"}
\* The lead_info parameter of the start frame: a base64url JSON record, a
\* blob that decodes to something that is not JSON (or the parameter absent,
\* read as ""), a blob that is not base64, or no customParameters at all.
LeadBlobs == {"b64_json_L1", "b64_not_json", "absent", "not_b64", "no_custom"}

NoFrame == [k |-> "none", event |-> "", streamSid |-> "", callSid |-> "", blob |-> ""]
Frame(k, ev) == [NoFrame EXCEPT !.k = k, !.event = ev]
StartFrame(s, c, b) ==
  [k |-> "json", event |-> "start", streamSid |-> s, callSid |-> c, blob |-> b]

HandshakeOther ==
  {Frame("json", ev) : ev \in {"connected", "media", "mark", "stop", "unknown"}}
HandshakeStarts == {StartFrame(s, c, b) : s \in StreamSids, c \in CallSids, b \in LeadBlobs}
HandshakeFailures == {Frame("disconnect", ""), Frame("not_json", "")}

\* Frames read by the twilio pump: JSON messages by event, "media_no_payload"
\* and "media_bad_b64" being media frames whose payload is missing or is not
\* base64; an empty JSON object; a text that is not JSON; a disconnect.
\* A second start frame, naming another stream, call and lead.
SecondStart == StartFrame("MZ2", "CA2", "b64_json_L2")
ActiveIgnored == {SecondStart, Frame("json", "mark"), Frame("empty", "")}
ActiveMedia == {Frame("json", "media")}
ActiveMalformed == {Frame("json", "media_no_payload"), Frame("json", "media_bad_b64"),
                    Frame("not_json", "")}
ActiveStop == {Frame("json", "stop"), Frame("json", "closed")}
ActiveDisconnect == {Frame("disconnect", "")}

\* Inference events, by the fields agent_to_twilio_messaging reads.
NoEvent == [tool |-> "none", turn_complete |-> FALSE, interrupted |-> FALSE,
            part |-> "none", author |-> "agent", note |-> "no_event"]
Ev(tool, tc, intr, part, author) ==
  [tool |-> tool, turn_complete |-> tc, interrupted |-> intr, part |-> part,
   author |-> author, note |-> "event"]
AudioChunk == Ev("none", FALSE, FALSE, "audio", "agent")
TurnComplete == Ev("none", TRUE, FALSE, "none", "agent")
Interrupted == Ev("none", FALSE, TRUE, "none", "agent")
ToolConclude == Ev("conclude_call", FALSE, FALSE, "none", "agent")
ToolOther == Ev("other_tool", FALSE, FALSE, "none", "agent")
OtherEvent == Ev("none", FALSE, FALSE, "none", "agent")
Events ==
  {AudioChunk, TurnComplete, Interrupted, ToolConclude, ToolOther, OtherEvent,
   Ev("none", FALSE, FALSE, "audio", "user"),          \* the caller's audio echoed
   Ev("none", FALSE, FALSE, "text", "agent"),          \* a transcription part
   Ev("none", FALSE, FALSE, "audio_odd", "agent"),     \* PCM of odd byte length
   Ev("none", FALSE, FALSE, "blob_no_mime", "agent"),  \* inline data, mime_type None
   Ev("none", FALSE, TRUE, "audio", "agent"),          \* interrupted, with audio
   Ev("none", TRUE, TRUE, "none", "agent"),            \* turn end and interruption at once
   Ev("conclude_call", TRUE, FALSE, "none", "agent")}  \* tool call and turn end at once

(***************************************************************************)
(* utils.decode_json_string: the decoded record, None when the decoded     *)
(* text is not JSON (the except branch returns nothing), and an exception  *)
(* other than JSONDecodeError propagates.                                  *)
(***************************************************************************)
decode_json_string_NoRecord(blob) == [raises |-> FALSE, value |-> "{}"]

decode_json_string(blob) ==
  CASE blob = "b64_json_L1" -> [raises |-> FALSE, value |-> "L1"]
    [] blob \in {"b64_not_json", "absent"} -> [raises |-> FALSE, value |-> "None"]
    [] OTHER -> [raises |-> TRUE, value |-> "{}"]

(***************************************************************************)
(* Two handler instances in one process (main.py lines 65-78 creates one   *)
(* TwilioAgentStream per websocket connection, with the one runner and the *)
(* one telephony_service of the process).  Each bridge is the record of    *)
(* the instance attributes of __init__ (lines 71-79) with the pump's local *)
(* turn_counter, what it sent and the id of its session.                   *)
(***************************************************************************)
BridgeIds == {"A", "B"}
\* The start frame of the call each bridge serves: two different calls.
StartOf(b) ==
  IF b = "A" THEN StartFrame("MZ1", "CA1", "b64_json_L1")
  ELSE StartFrame("MZ2", "CA2", "b64_json_L2")
NewBridge ==
  [pc |-> "handshake", stream_sid |-> "", call_sid |-> "", lead_info |-> "{}",
   terminate_call |-> FALSE, turn_counter |-> 0, session |-> "None",
   out |-> <<>>, n |-> 0]

(***************************************************************************)
(* The helpers of src/src/core/utils.py and the lead_info encoding of      *)
(* telephony_service.initiate_call_with_stream, computed as the library    *)
(* functions compute them.  A text is a sequence of ASCII codes, a byte    *)
(* string a sequence of 0..255, a PCM buffer a sequence of 16-bit samples  *)
(* (so its byte length is a multiple of 2).                                *)
(***************************************************************************)
\* base64: the character of a 6-bit value; the two alphabets differ in the
\* characters of 62 and 63 ("+/" and, url-safe, "-_").
B64Char(v, urlsafe) ==
  IF v < 26 THEN 65 + v
  ELSE IF v < 52 THEN 97 + (v - 26)
  ELSE IF v < 62 THEN 48 + (v - 52)
  ELSE IF v = 62 THEN (IF urlsafe THEN 45 ELSE 43)
  ELSE (IF urlsafe THEN 95 ELSE 47)

\* The 6-bit value of a character of the standard alphabet, -1 for any other.
B64Value(c) ==
  IF c \in 65..90 THEN c - 65
  ELSE IF c \in 97..122 THEN c - 71
  ELSE IF c \in 48..57 THEN c + 4
  ELSE IF c = 43 THEN 62
  ELSE IF c = 47 THEN 63
  ELSE -1

RECURSIVE B64Groups(_, _, _)
B64Groups(bytes, i, urlsafe) ==
  IF i > Len(bytes) THEN <<>>
  ELSE LET b1 == bytes[i]
           b2 == IF i + 1 <= Len(bytes) THEN bytes[i + 1] ELSE 0
           b3 == IF i + 2 <= Len(bytes) THEN bytes[i + 2] ELSE 0
           c1 == B64Char(b1 \div 4, urlsafe)
           c2 == B64Char((b1 % 4) * 16 + (b2 \div 16), urlsafe)
           c3 == B64Char((b2 % 16) * 4 + (b3 \div 64), urlsafe)
           c4 == B64Char(b3 % 64, urlsafe)
       IN IF i + 2 <= Len(bytes) THEN <<c1, c2, c3, c4>> \o B64Groups(bytes, i + 3, urlsafe)
          ELSE IF i + 1 <= Len(bytes) THEN <<c1, c2, c3, 61>>
          ELSE <<c1, c2, 61, 61>>

b64encode(bytes) == B64Groups(bytes, 1, FALSE)

urlsafe_b64encode(bytes) == B64Groups(bytes, 1, TRUE)

IsB64Data(c) == B64Value(c) >= 0
IsB64Pad(c) == c = 61

RECURSIVE B64Bytes(_, _)
B64Bytes(data, i) ==
  IF i + 1 > Len(data) THEN <<>>
  ELSE LET v1 == B64Value(data[i])
           v2 == B64Value(data[i + 1])
           v3 == IF i + 2 <= Len(data) THEN B64Value(data[i + 2]) ELSE 0
           v4 == IF i + 3 <= Len(data) THEN B64Value(data[i + 3]) ELSE 0
           b1 == v1 * 4 + (v2 \div 16)
           b2 == (v2 % 16) * 16 + (v3 \div 4)
           b3 == (v3 % 4) * 64 + v4
       IN IF i + 3 <= Len(data) THEN <<b1, b2, b3>> \o B64Bytes(data, i + 4)
          ELSE IF i + 2 <= Len(data) THEN <<b1, b2>>
          ELSE <<b1>>

\* base64.b64decode without validation: characters outside the alphabet are
\* discarded, and a last group that is not whole and not padded raises
\* binascii.Error.
b64decode(text) ==
  LET data == SelectSeq(text, IsB64Data)
      pads == Len(SelectSeq(text, IsB64Pad))
      rest == Len(data) % 4
  IN IF rest = 0 \/ (rest = 2 /\ pads >= 2) \/ (rest = 3 /\ pads >= 1)
     THEN [raises |-> FALSE, value |-> B64Bytes(data, 1)]
     ELSE [raises |-> TRUE, value |-> <<>>]

\* base64.urlsafe_b64decode: "-" and "_" are translated to "+" and "/", then
\* b64decode.
urlsafe_b64decode_Standard(text) == b64decode(text)

urlsafe_b64decode(text) ==
  b64decode([i \in 1..Len(text) |->
               IF text[i] = 45 THEN 43 ELSE IF text[i] = 95 THEN 47 ELSE text[i]])

\* json.dumps of a dict of strings, a sequence of <<key, value>> pairs in
\* insertion order: the quote and the backslash are escaped, the separators
\* are ", " and ": ".
RECURSIVE JsonEscape(_, _)
JsonEscape(str, i) ==
  IF i > Len(str) THEN <<>>
  ELSE (IF str[i] \in {34, 92} THEN <<92, str[i]>> ELSE <<str[i]>>) \o JsonEscape(str, i + 1)

JsonString(str) == <<34>> \o JsonEscape(str, 1) \o <<34>>

RECURSIVE JsonItems(_, _)
JsonItems(rec, i) ==
  IF i > Len(rec) THEN <<>>
  ELSE JsonString(rec[i][1]) \o <<58, 32>> \o JsonString(rec[i][2])
       \o (IF i < Len(rec) THEN <<44, 32>> ELSE <<>>) \o JsonItems(rec, i + 1)

json_dumps(rec) == <<123>> \o JsonItems(rec, 1) \o <<125>>

\* json.loads, for an object whose values are strings: a parse result is
\* [ok, value, next], next being the position after what was parsed.
ParseFailure == [ok |-> FALSE, value |-> <<>>, next |-> 0]

RECURSIVE SkipSpaces(_, _)
SkipSpaces(text, i) ==
  IF i <= Len(text) /\ text[i] = 32 THEN SkipSpaces(text, i + 1) ELSE i

RECURSIVE ScanString(_, _, _)
ScanString(text, i, acc) ==
  IF i > Len(text) THEN ParseFailure
  ELSE IF text[i] = 34 THEN [ok |-> TRUE, value |-> acc, next |-> i + 1]
  ELSE IF text[i] = 92
       THEN IF i + 1 <= Len(text) /\ text[i + 1] \in {34, 92, 47}
            THEN ScanString(text, i + 2, Append(acc, text[i + 1]))
            ELSE ParseFailure
  ELSE ScanString(text, i + 1, Append(acc, text[i]))

ParseString(text, i) ==
  IF i <= Len(text) /\ text[i] = 34 THEN ScanString(text, i + 1, <<>>) ELSE ParseFailure

RECURSIVE ParseMembers(_, _, _)
ParseMembers(text, i, acc) ==
  LET k == ParseString(text, SkipSpaces(text, i))
      colon == SkipSpaces(text, k.next)
      v == ParseString(text, SkipSpaces(text, colon + 1))
      after == SkipSpaces(text, v.next)
  IN IF ~k.ok \/ colon > Len(text) \/ text[colon] # 58 THEN ParseFailure
     ELSE IF ~v.ok \/ after > Len(text) THEN ParseFailure
     ELSE IF text[after] = 125
          THEN [ok |-> TRUE, value |-> Append(acc, <<k.value, v.value>>), next |-> after + 1]
     ELSE IF text[after] = 44
          THEN ParseMembers(text, after + 1, Append(acc, <<k.value, v.value>>))
     ELSE ParseFailure

ParseObject(text, i) ==
  IF i > Len(text) \/ text[i] # 123 THEN ParseFailure
  ELSE LET j == SkipSpaces(text, i + 1)
       IN IF j <= Len(text) /\ text[j] = 125
          THEN [ok |-> TRUE, value |-> <<>>, next |-> j + 1]
          ELSE ParseMembers(text, j, <<>>)

json_loads(text) ==
  LET r == ParseObject(text, SkipSpaces(text, 1))
  IN IF r.ok /\ SkipSpaces(text, r.next) > Len(text)
     THEN [raises |-> FALSE, value |-> r.value]
     ELSE [raises |-> TRUE, value |-> <<>>]

\* initiate_call_with_stream, lines 55-58: the lead_info blob of a record.
encode_lead_info(rec) == urlsafe_b64encode(json_dumps(rec))

\* utils.decode_json_string on the text of a blob: [raises, none, value];
\* bytes that are not UTF-8 and a binascii.Error raise, text that is not
\* JSON gives None.
decode_json_string_text(blob) ==
  LET bytes == urlsafe_b64decode(blob)
      json == json_loads(bytes.value)
  IN IF bytes.raises \/ (\E i \in 1..Len(bytes.value) : bytes.value[i] > 127)
     THEN [raises |-> TRUE, none |-> FALSE, value |-> <<>>]
     ELSE IF json.raises THEN [raises |-> FALSE, none |-> TRUE, value |-> <<>>]
     ELSE [raises |-> FALSE, none |-> FALSE, value |-> json.value]

\* The records the call-origination path encodes: a lead_id and a
\* first_name (keys "id" and "fn" here), each a text of up to MaxValueLen
\* characters among a ? " and \, in the order they were put in the dict.
LeadKeys == << <<105, 100>>, <<102, 110>> >>
ValueChars == {97, 63, 34, 92}
LeadValues == UNION {[1..n -> ValueChars] : n \in 0..MaxValueLen}
LeadRecords ==
  UNION {{[i \in 1..n |-> <<LeadKeys[i], vs[i]>>] : vs \in [1..n -> LeadValues]} :
           n \in 0..Len(LeadKeys)}

NoCodec ==
  [stage |-> "idle", record |-> <<>>, blob |-> <<>>,
   decoded |-> [raises |-> FALSE, none |-> FALSE, value |-> <<>>]]

(***************************************************************************)
(* audioop, as utils.py uses it (width 2, one channel, no filter weights). *)
(***************************************************************************)
RECURSIVE GCD(_, _)
GCD(a, b) == IF b = 0 THEN a ELSE GCD(b, a % b)

\* The state argument of ratecv: None, or what an earlier call returned.
NoRatecvState == [none |-> TRUE, d |-> 0, prev |-> 0, cur |-> 0]

\* audioop.ratecv's loop: an input sample is read while d < 0, an output
\* sample is written while d >= 0, interpolated between the last two input
\* samples.  The C code works on samples scaled by 2^16, truncates the
\* quotient and drops the low 16 bits, which for these rates is the floor
\* of the quotient.
RECURSIVE RatecvLoop(_, _, _, _, _, _, _, _)
RatecvLoop(samples, i, inrate, outrate, d, prev, cur, acc) ==
  IF d < 0
  THEN IF i > Len(samples)
       THEN [data |-> acc, state |-> [none |-> FALSE, d |-> d, prev |-> prev, cur |-> cur]]
       ELSE RatecvLoop(samples, i + 1, inrate, outrate, d + outrate, cur, samples[i], acc)
  ELSE RatecvLoop(samples, i, inrate, outrate, d - inrate, prev, cur,
                  Append(acc, (prev * d + cur * (outrate - d)) \div outrate))

ratecv(samples, inrate, outrate, state) ==
  LET g == GCD(inrate, outrate)
      i == inrate \div g
      o == outrate \div g
  IN IF state.none THEN RatecvLoop(samples, 1, i, o, -o, 0, 0, <<>>)
     ELSE RatecvLoop(samples, 1, i, o, state.d, state.prev, state.cur, <<>>)

RECURSIVE Pow2(_)
Pow2(n) == IF n = 0 THEN 1 ELSE 2 * Pow2(n - 1)

\* audioop.lin2ulaw of one 16-bit sample: the 14-bit magnitude, clipped and
\* biased, its segment and the four bits below the segment's leading bit,
\* all bits inverted.
Segment(v) == IF v > 8191 THEN 8 ELSE CHOOSE k \in 0..7 : v <= 64 * Pow2(k) - 1 /\ (k = 0 \/ v > 32 * Pow2(k) - 1)

lin2ulaw_sample(s) ==
  LET v == s \div 4
      mask == IF v < 0 THEN 127 ELSE 255
      a == IF v < 0 THEN -v ELSE v
      mag == (IF a > 8159 THEN 8159 ELSE a) + 33
      seg == Segment(mag)
  IN IF seg >= 8 THEN mask - 127
     ELSE mask - (seg * 16 + ((mag \div Pow2(seg + 1)) % 16))

\* audioop.ulaw2lin of one byte.
ulaw2lin_sample(u) ==
  LET c == 255 - u
      t == ((c % 16) * 8 + 132) * Pow2((c \div 16) % 8)
  IN IF c >= 128 THEN 132 - t ELSE t - 132

lin2ulaw(samples) == [i \in 1..Len(samples) |-> lin2ulaw_sample(samples[i])]

ulaw2lin(bytes) == [i \in 1..Len(bytes) |-> ulaw2lin_sample(bytes[i])]

ADK_TTS_OUTPUT_SAMPLE_RATE == 24000
TWILIO_SAMPLE_RATE == 8000

\* The state each conversion hands to ratecv: None (utils.py lines 34, 80),
\* whatever the call before returned.
ratecv_state_in_Carried(previous) == previous

ratecv_state_in(previous) == NoRatecvState

\* convert_pcm_audio_to_mulaw and convert_mulaw_audio_to_pcm, as
\* [value, state]: the value returned, and the state ratecv returned, which
\* the code drops.  `previous` is the state the ratecv call before returned.
convert_pcm_audio_to_mulaw(pcm_audio_data, pcm_sample_rate, previous) ==
  LET r == ratecv(pcm_audio_data, pcm_sample_rate, TWILIO_SAMPLE_RATE,
                  ratecv_state_in(previous))
  IN [value |-> b64encode(lin2ulaw(r.data)), state |-> r.state]

convert_mulaw_audio_to_pcm(mulaw_audio_payload, previous) ==
  LET decoded_audio == b64decode(mulaw_audio_payload)
      r == ratecv(ulaw2lin(decoded_audio.value), TWILIO_SAMPLE_RATE,
                  ADK_TTS_OUTPUT_SAMPLE_RATE, ratecv_state_in(previous))
  IN [raises |-> decoded_audio.raises, value |-> r.data, state |-> r.state]

\* PCM buffers and the rates convert_pcm_audio_to_mulaw is called with.
SampleValues == {1000, -32768}
PcmBuffers(maxlen) == UNION {[1..n -> SampleValues] : n \in 0..maxlen}
SampleRates == {8000, 16000, 24000, 48000}

NoAudio ==
  [stage |-> "idle", x |-> <<>>, r |-> ADK_TTS_OUTPUT_SAMPLE_RATE, n |-> 0, nx |-> 0,
   other |-> FALSE, last_in |-> <<>>, payload |-> <<>>, pcm |-> <<>>,
   first_payload |-> <<>>, first_pcm |-> <<>>,
   down |-> NoRatecvState, up |-> NoRatecvState]

\* No end_call was made yet.
NoEndCall == [resp |-> "none", raises |-> FALSE, value |-> FALSE]

(***************************************************************************)
(* Init: TwilioAgentStream.__init__, entering manage_stream.               *)
(***************************************************************************)
InitCall ==
  /\ mainPc = "handshake"
  /\ agentPc = "idle"
  /\ twilioPc = "idle"
  /\ stream_sid = ""
  /\ call_sid = ""
  /\ lead_info = "{}"
  /\ terminate_call = FALSE
  /\ initial_prompt_sent_to_agent = FALSE
  /\ live_request_queue = "None"
  /\ agent_session = "None"
  /\ agent_session_closed = FALSE
  /\ session_started = <<>>
  /\ turn_counter = 0
  /\ appClosed = FALSE
  /\ peerGone = FALSE
  /\ out = <<>>
  /\ sink = <<>>
  /\ lastEvent = NoEvent
  /\ lastFrame = NoFrame
  /\ nEvents = 0
  /\ nFrames = 0
  /\ nHandshake = 0
  /\ raised = FALSE
  /\ end_call_result = NoEndCall
  /\ phaseLog = <<"AWAITING_HANDSHAKE">>

InitBridges ==
  /\ bridges = [b \in BridgeIds |-> NewBridge]
  /\ session_service = {}

InitUtil ==
  /\ codec = NoCodec
  /\ audio = NoAudio

Init == InitCall /\ InitBridges /\ InitUtil

\* A task that never awaits keeps the event loop: nothing else runs.
LoopFree == agentPc # "spinning"

pumpVars == <<agentPc, twilioPc, terminate_call, initial_prompt_sent_to_agent,
              turn_counter, sink, lastEvent, lastFrame, nEvents, nFrames>>
idVars == <<stream_sid, call_sid, lead_info>>
sessionVars == <<live_request_queue, agent_session, agent_session_closed, session_started>>


(***************************************************************************)
(* WebSocket.close(code) called by task `by`.  WsCloseResults(by, code) is *)
(* the set of outcomes [raises, appClosed, out]: on a socket the           *)
(* application already closed the call raises and changes nothing; else    *)
(* the close message is issued, and raises only if the peer has gone.      *)
(***************************************************************************)
WsCloseResults(by, code, log) ==
  IF appClosed
  THEN {[raises |-> TRUE, appClosed |-> TRUE,
         out |-> Append(log, Act("refused_close", code, "", by))]}
  ELSE {[raises |-> r, appClosed |-> TRUE, out |-> Append(log, WsClose(code, by))] :
          r \in IF peerGone THEN {FALSE, TRUE} ELSE {FALSE}}

(***************************************************************************)
(* telephony_service.end_call (lines 124-160), by what the provider does   *)
(* with the POST: it accepts the termination; it answers with a JSON error *)
(* body (the call has already ended, or is unknown); or the request fails  *)
(* in aiohttp (a ClientError from the POST, or response.json() raising on  *)
(* an answer that is not JSON).  The status of the answer is only logged,  *)
(* True is returned whenever the answer was parsed, and only               *)
(* TwilioException is caught, which aiohttp does not raise.                *)
(***************************************************************************)
ProviderResponses == {"accepted", "rejected", "network_error"}

end_call(p) ==
  IF p \in {"accepted", "rejected"}
  THEN [resp |-> p, raises |-> FALSE, value |-> TRUE]
  ELSE [resp |-> p, raises |-> TRUE, value |-> FALSE]

\* end_call(call_sid) returns, or raises what is not a TwilioException.
EndCallOutcomes == {end_call(p) : p \in ProviderResponses}

(***************************************************************************)
(* manage_stream, the handshake loop (lines 286-309) with the except       *)
(* branches a failing handshake takes.  In every failing case the finally  *)
(* block reads agent_task before it was ever assigned and raises.          *)
(***************************************************************************)
\* Where manage_stream goes on a frame whose event is not "start": the
\* continue of line 292.
AfterOther_StopEnds(f) == IF f.event = "stop" THEN "done" ELSE "handshake"

AfterOther(f) == "handshake"

HandshakeSkip(f) ==
  /\ f \in HandshakeOther
  /\ nHandshake < MaxHandshakeFrames
  /\ nHandshake' = nHandshake + 1
  /\ mainPc' = AfterOther(f)
  /\ phaseLog' = Enter(AfterOther(f))
  /\ UNCHANGED <<idVars, out, appClosed, peerGone, raised>>

HandshakeDisconnect(f) ==
  /\ f = Frame("disconnect", "")
  /\ peerGone' = TRUE
  /\ mainPc' = "done"
  /\ raised' = TRUE
  /\ phaseLog' = Enter("done")
  /\ UNCHANGED <<idVars, out, appClosed, nHandshake>>

\* The except Exception branch (lines 340-351) followed by the finally block.
ExceptBranch(sid) ==
  IF sid # ""
  THEN /\ out' = Append(out, EndCall(sid, "main"))
       /\ mainPc' = "except_end_call"
       /\ phaseLog' = Enter("except_end_call")
       /\ UNCHANGED <<appClosed, raised>>
  ELSE /\ \E r \in WsCloseResults("main", CloseInternalError, out) :
            /\ out' = r.out
            /\ appClosed' = r.appClosed
       /\ mainPc' = "done"
       /\ raised' = TRUE
       /\ phaseLog' = Enter("done")

HandshakeNotJson(f) ==
  /\ f = Frame("not_json", "")
  /\ ExceptBranch(call_sid)
  /\ UNCHANGED <<idVars, nHandshake, peerGone>>

\* Where manage_stream goes once a start frame was read and decoded: the
\* break of line 303, then the check of line 305.
AfterStart_NoBreak(sid) == IF sid = "" THEN "done" ELSE "handshake"

AfterStart(sid) == IF sid = "" THEN "done" ELSE "start_session"

HandshakeStart(f) ==
  /\ f \in HandshakeStarts
  /\ stream_sid' = f.streamSid
  /\ call_sid' = f.callSid
  /\ nHandshake' = 0
  /\ UNCHANGED peerGone
  /\ IF f.blob = "no_custom" \/ decode_json_string(f.blob).raises
     THEN /\ ExceptBranch(f.callSid)
          /\ UNCHANGED lead_info
     ELSE /\ lead_info' = decode_json_string(f.blob).value
          /\ IF AfterStart(f.streamSid) = "done"
             THEN /\ \E r \in WsCloseResults("main", CloseProtocolError, out) :
                       /\ out' = r.out
                       /\ appClosed' = r.appClosed
                  /\ mainPc' = "done"
                  /\ raised' = TRUE
                  /\ phaseLog' = Enter("done")
             ELSE /\ mainPc' = AfterStart(f.streamSid)
                  /\ phaseLog' = Enter(AfterStart(f.streamSid))
                  /\ UNCHANGED <<out, appClosed, raised>>

ManageStream_Handshake ==
  /\ mainPc = "handshake"
  /\ \E f \in HandshakeOther \cup HandshakeStarts \cup HandshakeFailures :
       /\ \/ HandshakeSkip(f)
          \/ HandshakeDisconnect(f)
          \/ HandshakeNotJson(f)
          \/ HandshakeStart(f)
       /\ lastFrame' = f
  /\ UNCHANGED <<agentPc, twilioPc, terminate_call, initial_prompt_sent_to_agent,
                 turn_counter, sink, lastEvent, nEvents, nFrames, sessionVars>>
  /\ UNCHANGED end_call_result
  /\ UNCHANGED <<bridgeVars, utilVars>>

\* The awaited end_call of the except branch returns or raises; both calls
\* sit in one suppress(Exception) block, so a raise skips the close.
ManageStream_ExceptEndCall ==
  /\ mainPc = "except_end_call"
  /\ \E o \in EndCallOutcomes :
       /\ end_call_result' = o
       /\ IF ~o.raises
          THEN \E r \in WsCloseResults("main", CloseInternalError, out) :
                 /\ out' = r.out
                 /\ appClosed' = r.appClosed
          ELSE UNCHANGED <<out, appClosed>>
  /\ mainPc' = "done"
  /\ raised' = TRUE
  /\ phaseLog' = Enter("done")
  /\ UNCHANGED <<pumpVars, sessionVars, idVars, peerGone, nHandshake>>
  /\ UNCHANGED <<bridgeVars, utilVars>>

(***************************************************************************)
(* start_agent_session (lines 103-122, called with call_sid at line 311)   *)
(* and the creation of the two tasks (lines 313-314).  self.agent_session  *)
(* is not assigned: the session is a local of start_agent_session.         *)
(***************************************************************************)
start_agent_session ==
  /\ mainPc = "start_session"
  /\ live_request_queue' = "open"
  /\ session_started' = Append(session_started, call_sid)
  /\ agentPc' = "iter"
  /\ twilioPc' = "start"
  /\ mainPc' = "wait"
  /\ phaseLog' = Enter("wait")
  /\ UNCHANGED <<agent_session, agent_session_closed, idVars, terminate_call,
                 initial_prompt_sent_to_agent, turn_counter, appClosed, peerGone,
                 out, sink, lastEvent, lastFrame, nEvents, nFrames, nHandshake, raised>>
  /\ UNCHANGED end_call_result
  /\ UNCHANGED <<bridgeVars, utilVars>>


(***************************************************************************)
(* agent_to_twilio_messaging (lines 133-214).                              *)
(***************************************************************************)
\* Where a pump is after an exception in its body: both pumps catch
\* Exception around their loop (lines 208-214, 276-282), log, and return;
\* "failed" is a task that ended with the exception.
AfterPumpError_Escapes == "failed"

AfterPumpError == "done"

\* _terminate_call_after_turn: the latch after looking at the event.
_terminate_call_after_turn_AnyTool(e, latch) == latch \/ e.tool # "none"

_terminate_call_after_turn_PerEvent(e, latch) == e.tool = "conclude_call"

_terminate_call_after_turn(e, latch) == latch \/ e.tool = "conclude_call"

\* What one pass of the loop body does for event e, in order: the hangup of
\* lines 150-160, or the mark (162-169), the clear (171-180) and the media
\* frame (182-206).  "convert_error" is the body raising before the send:
\* audioop on PCM of odd length (line 193), or startswith on the mime_type
\* None of inline data that has no MIME type (line 188).
EventOps_HangupAtOnce(e, latch) ==
  IF latch THEN <<"hangup">>
  ELSE (IF e.turn_complete THEN <<"mark">> ELSE <<>>)
       \o (IF e.interrupted THEN <<"clear">> ELSE <<>>)
       \o (IF e.part = "audio" /\ e.author # "user" THEN <<"media">> ELSE <<>>)

EventOps_ClearLast(e, latch) ==
  IF e.turn_complete /\ latch THEN <<"hangup">>
  ELSE (IF e.turn_complete THEN <<"mark">> ELSE <<>>)
       \o (IF e.part = "audio" /\ e.author # "user" THEN <<"media">> ELSE <<>>)
       \o (IF e.interrupted THEN <<"clear">> ELSE <<>>)

EventOps_NoAudioOnInterrupt(e, latch) ==
  IF e.turn_complete /\ latch THEN <<"hangup">>
  ELSE (IF e.turn_complete THEN <<"mark">> ELSE <<>>)
       \o (IF e.interrupted THEN <<"clear">>
           ELSE IF e.part = "audio" /\ e.author # "user" THEN <<"media">> ELSE <<>>)

EventOps(e, latch) ==
  IF e.turn_complete /\ latch THEN <<"hangup">>
  ELSE (IF e.turn_complete THEN <<"mark">> ELSE <<>>)
       \o (IF e.interrupted THEN <<"clear">> ELSE <<>>)
       \o (IF e.part = "none" \/ e.author = "user" THEN <<>>
           ELSE IF e.part = "audio" THEN <<"media">>
           ELSE IF e.part \in {"audio_odd", "blob_no_mime"} THEN <<"convert_error">>
           ELSE <<>>)

OpFrame(op) ==
  CASE op = "mark" -> MarkFrame(turn_counter)
    [] op = "clear" -> ClearFrame
    [] OTHER -> MediaFrame

OpFrames(ops, k) == [i \in 1..k |-> OpFrame(ops[i])]

\* The first k operations succeed: none of them is the failing conversion,
\* and none is a send on a socket the application has closed.
CanComplete(ops, k) ==
  \A i \in 1..k : ops[i] # "convert_error" /\ ~appClosed

AgentEvent(e) ==
  LET latch == _terminate_call_after_turn(e, terminate_call)
      ops == EventOps(e, latch)
  IN /\ nEvents < MaxEvents
     /\ terminate_call' = latch
     /\ lastEvent' = e
     /\ nEvents' = nEvents + 1
     /\ IF ops = <<"hangup">>
        THEN /\ out' = Append(out, EndCall(call_sid, "agent"))
             /\ agentPc' = "hangup"
             /\ UNCHANGED <<turn_counter, peerGone>>
        ELSE \E k \in 0..Len(ops) :
               /\ CanComplete(ops, k)
               /\ out' = out \o OpFrames(ops, k)
                           \o (IF k < Len(ops) /\ ops[k + 1] # "convert_error" /\ appClosed
                               THEN <<Act("refused_send", 0, ops[k + 1], "agent")>>
                               ELSE <<>>)
               /\ turn_counter' =
                    IF \E i \in 1..k : ops[i] = "mark" THEN turn_counter + 1
                    ELSE turn_counter
               /\ peerGone' =
                    (peerGone \/ (k < Len(ops) /\ ops[k + 1] # "convert_error" /\ ~appClosed))
               /\ agentPc' = IF k = Len(ops) THEN "iter" ELSE AfterPumpError

\* live_events is exhausted: `while True` iterates it again at once, for ever.
AgentStreamEnd ==
  /\ agentPc' = "spinning"
  /\ UNCHANGED <<terminate_call, lastEvent, nEvents, out, turn_counter, peerGone>>

\* Iterating live_events raises: the except branch of line 208 ends the pump.
AgentStreamError ==
  /\ agentPc' = AfterPumpError
  /\ UNCHANGED <<terminate_call, lastEvent, nEvents, out, turn_counter, peerGone>>

agent_to_twilio_messaging ==
  /\ agentPc = "iter"
  /\ mainPc = "wait"
  /\ LoopFree
  /\ \/ \E e \in Events : AgentEvent(e)
     \/ AgentStreamEnd
     \/ AgentStreamError
  /\ UNCHANGED <<mainPc, twilioPc, idVars, sessionVars, initial_prompt_sent_to_agent,
                 appClosed, sink, lastFrame, nFrames, nHandshake, raised, phaseLog>>
  /\ UNCHANGED end_call_result
  /\ UNCHANGED <<bridgeVars, utilVars>>

\* Lines 156-160: end_call has returned or raised; then the close and the
\* break, which leaves only the inner loop.
agent_hangup ==
  /\ agentPc = "hangup"
  /\ mainPc = "wait"
  /\ LoopFree
  /\ \E o \in EndCallOutcomes :
       /\ end_call_result' = o
       /\ IF ~o.raises
          THEN \E r \in WsCloseResults("agent", CloseNormal, out) :
                 /\ out' = r.out
                 /\ appClosed' = r.appClosed
                 /\ agentPc' = IF r.raises THEN AfterPumpError ELSE "iter"
          ELSE /\ agentPc' = AfterPumpError
               /\ UNCHANGED <<out, appClosed>>
  /\ UNCHANGED <<mainPc, twilioPc, idVars, sessionVars, terminate_call,
                 initial_prompt_sent_to_agent, turn_counter, peerGone, sink,
                 lastEvent, lastFrame, nEvents, nFrames, nHandshake, raised, phaseLog>>
  /\ UNCHANGED <<bridgeVars, utilVars>>

(***************************************************************************)
(* twilio_to_agent_messaging (lines 234-282).                              *)
(***************************************************************************)
\* send_initial_prompt_to_agent (lines 216-232): lead_info.get raises when
\* lead_info is None, before anything is put on the queue.
send_initial_prompt_to_agent ==
  /\ twilioPc = "start"
  /\ mainPc = "wait"
  /\ LoopFree
  /\ IF lead_info = "None"
     THEN /\ twilioPc' = AfterPumpError
          /\ UNCHANGED <<sink, initial_prompt_sent_to_agent>>
     ELSE /\ sink' = IF initial_prompt_sent_to_agent THEN sink ELSE Append(sink, "content")
          /\ initial_prompt_sent_to_agent' = TRUE
          /\ twilioPc' = "recv"
  /\ UNCHANGED <<mainPc, agentPc, idVars, live_request_queue, agent_session,
                 agent_session_closed, session_started, terminate_call, turn_counter,
                 appClosed, peerGone, out, lastEvent, lastFrame, nEvents, nFrames,
                 nHandshake, raised, phaseLog>>
  /\ UNCHANGED end_call_result
  /\ UNCHANGED <<bridgeVars, utilVars>>

\* The identifiers <<stream_sid, call_sid, lead_info>> after the twilio pump
\* has read frame f: a start or connected frame is only logged (lines 253-259).
IdsAfterFrame_Rebind(f, ids) ==
  IF f.event = "start" THEN <<f.streamSid, f.callSid, "L2">> ELSE ids

IdsAfterFrame(f, ids) == ids

\* Where the twilio pump is after a stop or closed frame: the break of
\* line 275 leaves its only loop and the pump returns.
AfterStop_KeepsReading == "recv"

AfterStop == "done"

\* What the twilio pump has done on the websocket and the control port once
\* it has handled frame f: it only receives (lines 246-275 send nothing).
TwilioPumpSends_ClosesOnStop(f, log) ==
  IF f \in ActiveStop THEN Append(log, WsClose(CloseNormal, "twilio")) ELSE log

TwilioPumpSends(f, log) == log

TwilioFrame(f) ==
  /\ lastFrame' = f
  /\ out' = TwilioPumpSends(f, out)
  /\ stream_sid' = IdsAfterFrame(f, idVars)[1]
  /\ call_sid' = IdsAfterFrame(f, idVars)[2]
  /\ lead_info' = IdsAfterFrame(f, idVars)[3]
  /\ CASE f \in ActiveIgnored ->
            /\ nFrames < MaxFrames
            /\ nFrames' = nFrames + 1
            /\ UNCHANGED <<twilioPc, sink, live_request_queue, peerGone>>
       [] f \in ActiveMedia ->
            /\ nFrames < MaxFrames
            /\ nFrames' = nFrames + 1
            /\ sink' = Append(sink, "audio")
            /\ UNCHANGED <<twilioPc, live_request_queue, peerGone>>
       [] f \in ActiveMalformed ->
            /\ twilioPc' = AfterPumpError
            /\ UNCHANGED <<sink, live_request_queue, peerGone, nFrames>>
       [] f \in ActiveStop ->
            /\ sink' = Append(sink, "close")
            /\ live_request_queue' = "closed"
            /\ twilioPc' = AfterStop
            /\ UNCHANGED <<peerGone, nFrames>>
       [] f \in ActiveDisconnect ->
            /\ peerGone' = TRUE
            /\ twilioPc' = AfterPumpError
            /\ UNCHANGED <<sink, live_request_queue, nFrames>>

twilio_to_agent_messaging ==
  /\ twilioPc = "recv"
  /\ mainPc = "wait"
  /\ LoopFree
  /\ IF appClosed \/ peerGone
     THEN TwilioFrame(Frame("disconnect", ""))
     ELSE \E f \in ActiveIgnored \cup ActiveMedia \cup ActiveMalformed
                     \cup ActiveStop \cup ActiveDisconnect : TwilioFrame(f)
  /\ UNCHANGED <<mainPc, agentPc, agent_session, agent_session_closed,
                 session_started, terminate_call, initial_prompt_sent_to_agent,
                 turn_counter, appClosed, lastEvent, nEvents, nHandshake,
                 raised, phaseLog>>
  /\ UNCHANGED end_call_result
  /\ UNCHANGED <<bridgeVars, utilVars>>

(***************************************************************************)
(* manage_stream after the handshake: the wait for the first pump to       *)
(* finish and the cancellation of the other (lines 316-327), then the      *)
(* finally block (lines 352-375).                                          *)
(***************************************************************************)
Cancelled_LeftRunning(pc) == pc

Cancelled(pc) == IF pc = "done" THEN "done" ELSE "cancelled"

ManageStream_CancelPending ==
  /\ mainPc = "wait"
  /\ LoopFree
  /\ agentPc = "done" \/ twilioPc = "done"
  /\ agentPc' = Cancelled(agentPc)
  /\ twilioPc' = Cancelled(twilioPc)
  /\ mainPc' = "finally"
  /\ phaseLog' = Enter("finally")
  /\ UNCHANGED <<idVars, sessionVars, terminate_call, initial_prompt_sent_to_agent,
                 turn_counter, appClosed, peerGone, out, sink, lastEvent, lastFrame,
                 nEvents, nFrames, nHandshake, raised>>
  /\ UNCHANGED end_call_result
  /\ UNCHANGED <<bridgeVars, utilVars>>

\* Line 373: the finally block ends the call when a call sid is known.
FinallyEndsCall_OnRequest == call_sid # "" /\ terminate_call

FinallyEndsCall == call_sid # ""

\* The finally block up to its first suspension point; log is the phase
\* log on entering it.
FinallyBlock(log) ==
  /\ IF live_request_queue # "None"
     THEN /\ sink' = Append(sink, "close")
          /\ live_request_queue' = "closed"
     ELSE UNCHANGED <<sink, live_request_queue>>
  /\ agent_session_closed' = (agent_session # "None")
  /\ IF FinallyEndsCall
     THEN /\ out' = Append(out, EndCall(call_sid, "main"))
          /\ mainPc' = "finally_end_call"
          /\ phaseLog' = EnterFrom(log, "finally_end_call")
          /\ UNCHANGED <<appClosed, raised>>
     ELSE /\ \E r \in WsCloseResults("main", CloseNormal, out) :
               /\ out' = r.out
               /\ appClosed' = r.appClosed
               /\ raised' = r.raises
          /\ mainPc' = "done"
          /\ phaseLog' = EnterFrom(log, "done")
  /\ UNCHANGED <<idVars, agent_session, session_started, terminate_call,
                 initial_prompt_sent_to_agent, turn_counter, peerGone, lastEvent,
                 lastFrame, nEvents, nFrames, nHandshake>>
  /\ UNCHANGED end_call_result

ManageStream_Finally ==
  /\ mainPc = "finally"
  /\ FinallyBlock(phaseLog)
  /\ UNCHANGED <<agentPc, twilioPc>>
  /\ UNCHANGED <<bridgeVars, utilVars>>

(***************************************************************************)
(* The endpoint task that runs manage_stream is cancelled by the server    *)
(* while manage_stream awaits: the except branch of lines 336-339, then    *)
(* the finally block.  During the handshake the finally block raises on    *)
(* the unassigned agent_task.  While the bridge waits for its pumps, the   *)
(* finally block closes the queue, then requests the cancellation of the   *)
(* pumps that are not done (lines 367-370) without awaiting them, and goes *)
(* on; a pump whose cancellation was requested does nothing more than      *)
(* stop, the next time it is scheduled.                                    *)
(***************************************************************************)
CancelRequested(pc) == IF pc = "done" THEN "done" ELSE "cancelling"

ManageStream_Cancelled ==
  /\ LoopFree
  /\ \/ /\ mainPc = "handshake"
        /\ mainPc' = "done"
        /\ raised' = TRUE
        /\ phaseLog' = Enter("done")
        /\ UNCHANGED <<pumpVars, sessionVars, idVars, peerGone, out, appClosed,
                       nHandshake, end_call_result>>
     \/ /\ mainPc = "wait"
        /\ agentPc' = CancelRequested(agentPc)
        /\ twilioPc' = CancelRequested(twilioPc)
        /\ FinallyBlock(Enter("finally"))
  /\ UNCHANGED <<bridgeVars, utilVars>>

PumpCancelled ==
  /\ \/ /\ agentPc = "cancelling"
        /\ agentPc' = "cancelled"
        /\ UNCHANGED twilioPc
     \/ /\ twilioPc = "cancelling"
        /\ twilioPc' = "cancelled"
        /\ UNCHANGED agentPc
  /\ UNCHANGED <<mainPc, idVars, sessionVars, terminate_call,
                 initial_prompt_sent_to_agent, turn_counter, appClosed, peerGone,
                 out, sink, lastEvent, lastFrame, nEvents, nFrames, nHandshake,
                 raised, phaseLog>>
  /\ UNCHANGED end_call_result
  /\ UNCHANGED <<bridgeVars, utilVars>>

ManageStream_FinallyEndCall ==
  /\ mainPc = "finally_end_call"
  /\ \E o \in EndCallOutcomes :
       /\ end_call_result' = o
       /\ IF ~o.raises
          THEN \E r \in WsCloseResults("main", CloseNormal, out) :
                 /\ out' = r.out
                 /\ appClosed' = r.appClosed
                 /\ raised' = r.raises
          ELSE /\ raised' = TRUE
               /\ UNCHANGED <<out, appClosed>>
  /\ mainPc' = "done"
  /\ phaseLog' = Enter("done")
  /\ UNCHANGED <<pumpVars, sessionVars, idVars, peerGone, nHandshake>>
  /\ UNCHANGED <<bridgeVars, utilVars>>

Next ==
  \/ ManageStream_Handshake
  \/ ManageStream_ExceptEndCall
  \/ start_agent_session
  \/ agent_to_twilio_messaging
  \/ agent_hangup
  \/ send_initial_prompt_to_agent
  \/ twilio_to_agent_messaging
  \/ ManageStream_CancelPending
  \/ ManageStream_Finally
  \/ ManageStream_FinallyEndCall
  \/ ManageStream_Cancelled
  \/ PumpCancelled

Spec == Init /\ [][Next]_vars

(***************************************************************************)
(* The two bridges side by side.  A step is a step of one bridge: reading  *)
(* its start frame and starting its session (lines 293-311, 82-122),       *)
(* consuming one inference event of its own event stream (lines 147-206),  *)
(* or its teardown (lines 352-375).  The session is looked up or created   *)
(* in the runner's session service under session_id = call_sid.            *)
(***************************************************************************)
_get_managed_agent_session_PerApp(session_id, app_name) == app_name

_get_managed_agent_session(session_id, app_name) == session_id

BridgeEvents == {AudioChunk, TurnComplete, Interrupted, ToolConclude}

BridgeFrame(br, op) ==
  CASE op = "mark" -> [t |-> "mark", n |-> br.turn_counter, sid |-> br.stream_sid]
    [] op = "clear" -> [t |-> "clear", n |-> 0, sid |-> br.stream_sid]
    [] op = "media" -> [t |-> "media", n |-> 0, sid |-> br.stream_sid]
    [] OTHER -> [t |-> "end_call", n |-> 0, sid |-> br.call_sid]

Bridge_start(b) ==
  LET f == StartOf(b)
      key == _get_managed_agent_session(f.callSid, "lead_agent")
  IN /\ bridges[b].pc = "handshake"
     /\ bridges' = [bridges EXCEPT ![b] =
                      [@ EXCEPT !.pc = "active", !.stream_sid = f.streamSid,
                                !.call_sid = f.callSid, !.lead_info = f.blob,
                                !.session = key]]
     /\ session_service' = session_service \cup {key}

Bridge_agent_event(b) ==
  /\ bridges[b].pc = "active"
  /\ bridges[b].n < MaxBridgeEvents
  /\ \E e \in BridgeEvents :
       LET br == bridges[b]
           latch == _terminate_call_after_turn(e, br.terminate_call)
           ops == EventOps(e, latch)
       IN bridges' = [bridges EXCEPT ![b] =
                        [@ EXCEPT !.terminate_call = latch,
                                  !.n = @ + 1,
                                  !.out = @ \o [i \in 1..Len(ops) |-> BridgeFrame(br, ops[i])],
                                  !.turn_counter =
                                     IF \E i \in 1..Len(ops) : ops[i] = "mark"
                                     THEN @ + 1 ELSE @]]
  /\ UNCHANGED session_service

Bridge_teardown(b) ==
  /\ bridges[b].pc = "active"
  /\ bridges' = [bridges EXCEPT ![b] =
                   [@ EXCEPT !.pc = "closed",
                             !.out = Append(@, BridgeFrame(bridges[b], "end_call"))]]
  /\ UNCHANGED session_service

NextBridges ==
  \E b \in BridgeIds :
    /\ \/ Bridge_start(b)
       \/ Bridge_agent_event(b)
       \/ Bridge_teardown(b)
    /\ UNCHANGED <<callVars, utilVars>>

SpecBridges == Init /\ [][NextBridges]_vars

(***************************************************************************)
(* The lead context on its way from the call-origination path to the       *)
(* bridge: initiate_call_with_stream encodes the record into the lead_info *)
(* parameter (telephony_service.py lines 55-58), and manage_stream decodes *)
(* the parameter of the start frame (line 297, utils.py lines 41-60).      *)
(***************************************************************************)
InitCodec ==
  /\ InitCall
  /\ InitBridges
  /\ codec \in {[NoCodec EXCEPT !.stage = "record", !.record = rec] : rec \in LeadRecords}
  /\ audio = NoAudio

initiate_call_with_stream ==
  /\ codec.stage = "record"
  /\ codec' = [codec EXCEPT !.stage = "encoded", !.blob = encode_lead_info(codec.record)]
  /\ UNCHANGED <<callVars, bridgeVars, audio>>

ManageStream_DecodeLeadInfo ==
  /\ codec.stage = "encoded"
  /\ codec' = [codec EXCEPT !.stage = "decoded",
                            !.decoded = decode_json_string_text(codec.blob)]
  /\ UNCHANGED <<callVars, bridgeVars, audio>>

NextCodec ==
  \/ initiate_call_with_stream
  \/ ManageStream_DecodeLeadInfo

SpecCodec == InitCodec /\ [][NextCodec]_vars

(***************************************************************************)
(* The two transcoders applied chunk after chunk, as the pumps apply them  *)
(* (handler lines 193 and 263).  A buffer x and a rate r are fixed; each   *)
(* round converts x or some other buffer to mu-law and the result back to  *)
(* PCM.  The first results for x are kept to compare later ones with.      *)
(***************************************************************************)
InitAudio ==
  /\ InitCall
  /\ InitBridges
  /\ codec = NoCodec
  /\ audio \in {[NoAudio EXCEPT !.x = x, !.r = r] :
                  x \in PcmBuffers(MaxSamples), r \in SampleRates}

ToNarrowband ==
  /\ audio.stage \in {"idle", "wide"}
  /\ audio.n < MaxConversions
  /\ \E c \in {audio.x} \cup PcmBuffers(MaxOtherSamples) :
       LET res == convert_pcm_audio_to_mulaw(c, audio.r, audio.down)
       IN audio' = [audio EXCEPT !.stage = "narrow",
                                 !.n = @ + 1,
                                 !.nx = IF c = audio.x THEN @ + 1 ELSE @,
                                 !.other = @ \/ c # audio.x,
                                 !.last_in = c,
                                 !.payload = res.value,
                                 !.down = res.state,
                                 !.first_payload =
                                    IF c = audio.x /\ audio.nx = 0 THEN res.value ELSE @]
  /\ UNCHANGED <<callVars, bridgeVars, codec>>

ToWideband ==
  /\ audio.stage = "narrow"
  /\ LET res == convert_mulaw_audio_to_pcm(audio.payload, audio.up)
     IN audio' = [audio EXCEPT !.stage = "wide",
                               !.pcm = res.value,
                               !.up = res.state,
                               !.first_pcm =
                                  IF audio.last_in = audio.x /\ audio.nx = 1
                                  THEN res.value ELSE @]
  /\ UNCHANGED <<callVars, bridgeVars, codec>>

NextAudio ==
  \/ ToNarrowband
  \/ ToWideband

SpecAudio == InitAudio /\ [][NextAudio]_vars


(***************************************************************************)
(* Observations the properties are stated on.                              *)
(***************************************************************************)
IsEndCall(a) == a.t = "end_call"
IsClear(a) == a.t = "clear"
EndCalls == SelectSeq(out, IsEndCall)
Clears(s) == Len(SelectSeq(s, IsClear))
\* The agent pump took the hangup branch: a TurnComplete with the latch set.
AgentHungUp == \E i \in 1..Len(out) : out[i].t = "end_call" /\ out[i].by = "agent"
HandshakeCompleted == session_started # <<>>
\* A start frame was read and decoded and names a stream.
StartAccepted == stream_sid # "" /\ lead_info # "{}"
\* In a step: what the step appended to `out`, and whether it is the agent
\* pump consuming an inference event.
NewOut == SubSeq(out', Len(out) + 1, Len(out'))
AgentConsumes == nEvents' = nEvents + 1
ClearBeforeMedia(s) ==
  \A i \in 1..Len(s) : s[i].t = "media" => \E j \in 1..(i - 1) : s[j].t = "clear"
NoMediaAfterHangup ==
  \A i, j \in 1..Len(out) :
    (out[i].t = "end_call" /\ out[i].by = "agent" /\ i < j) => out[j].t # "media"
PhaseRank(ph) ==
  CASE ph = "AWAITING_HANDSHAKE" -> 0
    [] ph = "ACTIVE" -> 1
    [] ph = "DRAINING" -> 2
    [] OTHER -> 3
MalformedMedia == {Frame("json", "media_no_payload"), Frame("json", "media_bad_b64")}

(***************************************************************************)
(* C1 (as claimed): once the agent pump has processed a TurnComplete with  *)
(* the conclude_call latch set, end_call has been invoked exactly once in  *)
(* the life of the bridge, and no media frame is sent after that           *)
(* TurnComplete.                                                           *)
(***************************************************************************)
C1_ConcludeHangsUpExactlyOnce ==
  (AgentHungUp /\ call_sid # "") => (Len(EndCalls) = 1 /\ NoMediaAfterHangup)

C3_HangupAttemptedExactlyOnce ==
  (HandshakeCompleted /\ call_sid # "") =>
    /\ Len(EndCalls) <= 1
    /\ mainPc = "done" => Len(EndCalls) = 1

C5_InterruptedAlwaysClears ==
  [][(AgentConsumes /\ lastEvent'.interrupted) =>
       (Clears(NewOut) = 1 /\ ClearBeforeMedia(NewOut))]_vars

(***************************************************************************)
(* C5 (amended): an Interrupted event puts at most one clear frame on the  *)
(* transport and no media frame of that event before it; it puts none only *)
(* when the event is the TurnComplete that starts the hangup, or when a    *)
(* send failed (socket closed by the application, or transport gone) and   *)
(* the pump ended; and no media frame follows a hangup.                    *)
(***************************************************************************)
C5_ClearBeforeMediaUnlessSendFails ==
  /\ [][(AgentConsumes /\ lastEvent'.interrupted) =>
          /\ Clears(NewOut) <= 1
          /\ ClearBeforeMedia(NewOut)
          /\ Clears(NewOut) = 0 =>
               \/ agentPc' = "hangup"
               \/ agentPc' = "done" /\ (appClosed \/ peerGone')]_vars
  /\ []NoMediaAfterHangup

C5_Witness ==
  /\ lastEvent = Ev("none", FALSE, TRUE, "audio", "agent")
  /\ Len(out) >= 3
  /\ out[Len(out) - 1] = ClearFrame
  /\ out[Len(out)] = MediaFrame

(***************************************************************************)
(* C6 (as claimed): reading a media frame whose payload is missing or is   *)
(* not base64 leaves the twilio pump running and the bridge ACTIVE, and    *)
(* puts nothing on the queue.                                              *)
(***************************************************************************)
C6_MalformedMediaIsDropped ==
  [][(twilioPc = "recv" /\ lastFrame' \in MalformedMedia) =>
       (twilioPc' = "recv" /\ sink' = sink)]_vars

(***************************************************************************)
(* C7: consuming a conclude_call tool event that is not itself a           *)
(* TurnComplete sets the latch and neither ends the call nor closes the    *)
(* socket; the agent pump invokes end_call only in the step that consumes  *)
(* a TurnComplete, and closes the socket only right after that end_call;   *)
(* and an AudioChunk consumed with the latch set before any hangup is      *)
(* sent as a media frame unless that send fails because the transport has  *)
(* gone.                                                                   *)
(***************************************************************************)
C7_ConcludeOnlySetsLatch ==
  /\ [][(AgentConsumes /\ lastEvent'.tool = "conclude_call" /\ ~lastEvent'.turn_complete) =>
          /\ terminate_call'
          /\ agentPc' # "hangup"
          /\ \A i \in 1..Len(NewOut) : NewOut[i].t \in {"mark", "clear", "media"}]_vars
  /\ [][(\E i \in 1..Len(NewOut) : NewOut[i].t = "end_call" /\ NewOut[i].by = "agent") =>
          (AgentConsumes /\ lastEvent'.turn_complete /\ terminate_call')]_vars
  /\ [](\A i \in 1..Len(out) :
          (out[i].t \in {"close", "refused_close"} /\ out[i].by = "agent") =>
            (i > 1 /\ out[i - 1].t = "end_call" /\ out[i - 1].by = "agent"))
  /\ [][(AgentConsumes /\ terminate_call /\ ~AgentHungUp /\ lastEvent' = AudioChunk) =>
          \/ NewOut = <<MediaFrame>>
          \/ NewOut = <<>> /\ agentPc' = "done" /\ peerGone']_vars

C7_Witness ==
  /\ terminate_call
  /\ ~AgentHungUp
  /\ ~appClosed
  /\ lastEvent = AudioChunk
  /\ nEvents >= 2
  /\ out = <<MediaFrame>>
  /\ agentPc = "iter"

(***************************************************************************)
(* C8 (as claimed): when the agent pump hangs up on a TurnComplete, the    *)
(* mark frame of that turn is what it sent just before invoking end_call.  *)
(***************************************************************************)
C8_MarkBeforeHangup ==
  \A i \in 1..Len(out) :
    (out[i].t = "end_call" /\ out[i].by = "agent") => (i > 1 /\ out[i - 1].t = "mark")

(***************************************************************************)
(* C9 (as claimed): an ACTIVE bridge on which a terminal condition has     *)
(* occurred is CLOSED or can still take a step; no step of the model       *)
(* leads back, so with every task scheduled fairly this is reaching        *)
(* CLOSED.                                                                 *)
(***************************************************************************)
TerminalCondition ==
  \/ twilioPc = "done"
  \/ agentPc \in {"done", "spinning"}
  \/ AgentHungUp

C9_TerminalConditionLeadsToClosed ==
  (HandshakeCompleted /\ TerminalCondition) => (mainPc = "done" \/ ENABLED Next)

(***************************************************************************)
(* C10 (as claimed): a bridge that was ACTIVE and is CLOSED has both pumps *)
(* finished, the input queue and the agent session closed, end_call        *)
(* issued for its call sid and the websocket closed.                       *)
(***************************************************************************)
C10_ClosedMeansAllReleased ==
  (mainPc = "done" /\ HandshakeCompleted) =>
    /\ agentPc \in {"done", "cancelled"}
    /\ twilioPc \in {"done", "cancelled"}
    /\ live_request_queue = "closed"
    /\ agent_session_closed
    /\ \E i \in 1..Len(out) : out[i].t = "end_call" /\ out[i].sid = call_sid
    /\ appClosed

\* manage_stream's teardown issued (or tried to issue) a close of the websocket.
MainClosedSocket ==
  \E i \in 1..Len(out) : out[i].by = "main" /\ out[i].t \in {"close", "refused_close"}

(***************************************************************************)
(* C11 (as claimed): teardown is not short-circuited: whatever its earlier *)
(* steps did (closing the queue, closing the session, end_call returning   *)
(* or raising), a bridge that was ACTIVE and is CLOSED has executed the    *)
(* last step, the close of the websocket.                                  *)
(***************************************************************************)
C11_TeardownNotShortCircuited ==
  (mainPc = "done" /\ HandshakeCompleted) => MainClosedSocket

\* One of the two pumps has finished (returned, or ended on an exception).
APumpFinished == agentPc = "done" \/ twilioPc = "done"

(***************************************************************************)
(* C12 (as claimed): while the bridge is ACTIVE and waits for its pumps,   *)
(* one finished pump is enough for manage_stream to go on: it can take the *)
(* step that cancels the other pump and enters teardown, whatever the      *)
(* other pump is doing.                                                    *)
(***************************************************************************)
C12_LeavesActiveWhenEitherPumpFinishes ==
  (mainPc = "wait" /\ APumpFinished) => ENABLED ManageStream_CancelPending

\* Neither pump is reading frames, consuming events or sending any more.
PumpsStopped == agentPc \in {"done", "cancelled"} /\ twilioPc \in {"done", "cancelled"}

(***************************************************************************)
(* C13 (as claimed): once a bridge that was ACTIVE has begun teardown or   *)
(* is CLOSED, both pumps have stopped: each has finished, or its           *)
(* cancellation has been delivered and awaited.                            *)
(***************************************************************************)
C13_PumpsStoppedBeforeTeardown ==
  (HandshakeCompleted /\ Phase(mainPc) \in {"DRAINING", "CLOSED"}) => PumpsStopped

\* The websocket was closed by manage_stream with the given close code.
MainClosedWith(code) == \E i \in 1..Len(out) : out[i] = WsClose(code, "main")

(***************************************************************************)
(* C14 (as claimed): the handshake is bounded: once the largest number of  *)
(* frames other than start that the handshake loop is followed through     *)
(* has been read, the bridge has stopped reading, has closed the websocket *)
(* with the protocol-error code and is CLOSED, with no session started.    *)
(***************************************************************************)
C14_HandshakeBounded ==
  nHandshake >= MaxHandshakeFrames =>
    /\ mainPc = "done"
    /\ MainClosedWith(CloseProtocolError)
    /\ session_started = <<>>

\* The transport disconnected before any start frame was read.
DisconnectedInHandshake == peerGone /\ session_started = <<>> /\ stream_sid = ""

(***************************************************************************)
(* C15 (as claimed): when the transport disconnects during the handshake,  *)
(* manage_stream ends CLOSED having closed the websocket with the          *)
(* protocol-error code, with no session started and no end_call, and       *)
(* without raising.                                                        *)
(***************************************************************************)
C15_HandshakeDisconnectClosesCleanly ==
  DisconnectedInHandshake =>
    /\ mainPc = "done"
    /\ MainClosedWith(CloseProtocolError)
    /\ session_started = <<>>
    /\ EndCalls = <<>>
    /\ ~raised

(***************************************************************************)
(* C16: a frame other than start read by the handshake loop (connected,    *)
(* media, mark, stop) leaves the bridge in AWAITING_HANDSHAKE, puts        *)
(* nothing on the input queue and starts no session, and the identifiers   *)
(* stay unset; as long as the bridge is in AWAITING_HANDSHAKE nothing was  *)
(* put on the queue, no session was started and nothing was sent.          *)
(***************************************************************************)
C16_HandshakeDiscardsOtherFrames ==
  /\ [][(mainPc = "handshake" /\ nHandshake' # nHandshake /\ lastFrame' \in HandshakeOther) =>
          /\ mainPc' = "handshake"
          /\ UNCHANGED <<sink, out, idVars, sessionVars, agentPc, twilioPc>>]_vars
  /\ [](mainPc = "handshake" =>
          /\ sink = <<>>
          /\ out = <<>>
          /\ session_started = <<>>
          /\ live_request_queue = "None"
          /\ agentPc = "idle" /\ twilioPc = "idle")

C16_Witness ==
  /\ mainPc = "handshake"
  /\ lastFrame = Frame("json", "stop")
  /\ nHandshake = 2

\* The JSON record a lead_info blob is the (padded) base64url encoding of.
RecordOf(blob) == IF blob = "b64_json_L1" THEN "L1" ELSE "no_record"
\* The step in which the handshake loop reads a start frame.
ReadsStart == mainPc = "handshake" /\ lastFrame' \in HandshakeStarts

(***************************************************************************)
(* C17: reading a start frame that names a stream and whose lead_info is   *)
(* the base64url encoding of a JSON record takes the bridge to ACTIVE with *)
(* stream_sid, call_sid and lead_info set to the frame's streamSid, its    *)
(* callSid and that record.                                                *)
(***************************************************************************)
C17_StartFrameSetsSession ==
  [][(ReadsStart /\ lastFrame'.streamSid # "" /\ RecordOf(lastFrame'.blob) # "no_record") =>
       /\ Phase(mainPc') = "ACTIVE"
       /\ stream_sid' = lastFrame'.streamSid
       /\ call_sid' = lastFrame'.callSid
       /\ lead_info' = RecordOf(lastFrame'.blob)]_vars

C17_Witness ==
  /\ mainPc = "wait"
  /\ lastFrame = StartFrame("MZ1", "CA1", "b64_json_L1")
  /\ stream_sid = "MZ1"
  /\ call_sid = "CA1"
  /\ lead_info = "L1"
  /\ session_started # <<>>

\* The step in which the twilio pump, once scheduled, runs up to its first
\* receive (or ends before it).
TwilioPumpStarts == twilioPc = "start" /\ twilioPc' \in {"recv", "done"}

(***************************************************************************)
(* C18 (as claimed): reading a start frame that names a stream and whose   *)
(* lead_info is missing (no customParameters, no lead_info), is not        *)
(* base64url or does not decode to JSON takes the bridge to ACTIVE with    *)
(* the empty record as lead_info; and the twilio pump, once it runs, puts  *)
(* the initial content message on the queue and goes on to receive.        *)
(***************************************************************************)
C18_UndecodableBlobGivesEmptyContext ==
  /\ [][(ReadsStart /\ lastFrame'.streamSid # "" /\ RecordOf(lastFrame'.blob) = "no_record") =>
          /\ Phase(mainPc') = "ACTIVE"
          /\ lead_info' = "{}"]_vars
  /\ [][TwilioPumpStarts => (sink' = Append(sink, "content") /\ twilioPc' = "recv")]_vars

IsContent(x) == x = "content"
Contents(q) == Len(SelectSeq(q, IsContent))
\* Every audio blob on the queue has the initial content message before it.
ContentBeforeAudio(q) ==
  \A i \in 1..Len(q) : q[i] = "audio" => \E j \in 1..(i - 1) : q[j] = "content"

(***************************************************************************)
(* C19 (as claimed): the initial content message is never put on the queue *)
(* twice and precedes every audio blob; and once the twilio pump of an     *)
(* ACTIVE bridge has run up to its first receive (or ended before it),     *)
(* exactly one initial content message is on the queue.                    *)
(***************************************************************************)
C19_ExactlyOneInitialPrompt ==
  /\ [](Contents(sink) <= 1 /\ ContentBeforeAudio(sink))
  /\ [][TwilioPumpStarts => Contents(sink') = 1]_vars

(***************************************************************************)
(* C20: the termination latch starts false, and no step of the bridge      *)
(* (an event consumed, a frame read, a teardown step) takes it from true   *)
(* back to false.                                                          *)
(***************************************************************************)
C20_LatchMonotonic ==
  /\ ~terminate_call
  /\ [][terminate_call => terminate_call']_vars

C20_Witness ==
  /\ terminate_call
  /\ lastEvent.tool # "conclude_call"
  /\ nEvents >= 2
  /\ nFrames >= 1
  /\ mainPc = "done"

(***************************************************************************)
(* C21: once manage_stream has left the handshake loop, no step changes    *)
(* stream_sid, call_sid or lead_info; in particular the twilio pump        *)
(* reading a second start frame that names another stream and call leaves  *)
(* them as the first start frame set them.                                 *)
(***************************************************************************)
C21_IdentifiersImmutable ==
  [][mainPc # "handshake" => UNCHANGED idVars]_vars

C21_Witness ==
  /\ mainPc = "wait"
  /\ twilioPc = "recv"
  /\ lastFrame = SecondStart
  /\ nEvents >= 1
  /\ idVars = <<"MZ1", "CA1", "L1">>

(***************************************************************************)
(* C22: consuming a tool event whose tool is not conclude_call changes     *)
(* nothing in the bridge: the latch, the turn counter, the phase and the   *)
(* positions of the three tasks stay as they were, nothing is sent or      *)
(* closed, no end_call is issued and nothing is put on the queue; and an   *)
(* event that carries such a tool call never changes the latch.            *)
(***************************************************************************)
C22_OtherToolChangesNothing ==
  /\ [][(AgentConsumes /\ lastEvent' = ToolOther) =>
          UNCHANGED <<terminate_call, turn_counter, mainPc, agentPc, twilioPc, phaseLog,
                      out, sink, appClosed, idVars, sessionVars>>]_vars
  /\ [][(AgentConsumes /\ lastEvent'.tool = "other_tool") =>
          UNCHANGED terminate_call]_vars

C22_Witness ==
  /\ lastEvent = ToolOther
  /\ nEvents >= 2
  /\ ~terminate_call
  /\ turn_counter = 1
  /\ out = <<MarkFrame(0)>>
  /\ agentPc = "iter"

IsMark(a) == a.t = "mark"
Marks == SelectSeq(out, IsMark)

(***************************************************************************)
(* C23 (as claimed): the mark frame sent for the k-th TurnComplete carries *)
(* the turn counter after its increment: the k-th mark frame names turn k  *)
(* (so successive mark frames carry strictly increasing values), and the   *)
(* turn counter is the number of mark frames sent.                         *)
(***************************************************************************)
C23_MarkCarriesNewCounter ==
  /\ \A k \in 1..Len(Marks) : Marks[k].n = k
  /\ turn_counter = Len(Marks)

\* A pump ended on an error: the agent pump finishes only through its
\* except branch, the twilio pump on a frame it could not handle or on a
\* failing receive.
ErrorEnding ==
  \/ agentPc = "done"
  \/ twilioPc = "done" /\ lastFrame \in ActiveMalformed \cup ActiveDisconnect

(***************************************************************************)
(* C24 (as claimed): a bridge one of whose pumps ended on an error is not  *)
(* closed with the normal code, and the protocol-error code is used only   *)
(* when the handshake failed.                                              *)
(***************************************************************************)
C24_CloseCodeReflectsReason ==
  \A i \in 1..Len(out) :
    /\ (out[i].t = "close" /\ out[i].n = CloseNormal /\ out[i].by = "main") => ~ErrorEnding
    /\ (out[i].t = "close" /\ out[i].n = CloseProtocolError) => ~HandshakeCompleted

IsQueueClose(x) == x = "close"
QueueCloses == Len(SelectSeq(sink, IsQueueClose))
IsSocketClose(a) == a.t \in {"close", "refused_close"}
SocketCloses == SelectSeq(out, IsSocketClose)

(***************************************************************************)
(* C25 (as claimed): the input queue and the websocket are each closed at  *)
(* most once, and only by manage_stream's teardown: while the bridge is    *)
(* ACTIVE neither has been closed, and no pump closes the websocket.       *)
(***************************************************************************)
C25_ReleasedOnceInDraining ==
  /\ QueueCloses <= 1
  /\ Len(SocketCloses) <= 1
  /\ \A i \in 1..Len(SocketCloses) : SocketCloses[i].by = "main"
  /\ Phase(mainPc) = "ACTIVE" => (~appClosed /\ live_request_queue # "closed")

(***************************************************************************)
(* C26 (as claimed): once the bridge has closed the websocket, no step     *)
(* consumes an inference event, sends a mark, clear or media frame, or     *)
(* invokes end_call.                                                       *)
(***************************************************************************)
C26_NothingAfterSocketClose ==
  [][appClosed =>
       /\ ~AgentConsumes
       /\ \A i \in 1..Len(NewOut) : NewOut[i].t \notin {"mark", "clear", "media", "end_call"}]_vars

\* A pump reaches its end in this step.
AgentPumpEnds == agentPc # "done" /\ agentPc' = "done"
TwilioPumpEnds == twilioPc # "done" /\ twilioPc' = "done"

(***************************************************************************)
(* C27: no pump task ends with an exception; the step in which a pump ends *)
(* (on a failing receive, conversion or send, or on an inference error)    *)
(* changes neither the position of the other pump nor that of              *)
(* manage_stream, and does not make manage_stream raise; manage_stream     *)
(* leaves its wait through its own step only.                              *)
(***************************************************************************)
C27_PumpErrorsStayInPump ==
  /\ [](agentPc # "failed" /\ twilioPc # "failed")
  /\ [][AgentPumpEnds => UNCHANGED <<twilioPc, mainPc, raised, phaseLog>>]_vars
  /\ [][TwilioPumpEnds => UNCHANGED <<agentPc, mainPc, raised, phaseLog>>]_vars

C27_Witness ==
  /\ agentPc = "done"
  /\ lastEvent.part = "audio_odd"
  /\ twilioPc = "recv"
  /\ nFrames >= 1
  /\ mainPc = "wait"
  /\ ~raised

\* The agent pump ended before it consumed any event: iterating live_events
\* raised.
InferenceErrorAtOnce == agentPc = "done" /\ nEvents = 0

C29_EndCallNeverRaises ==
  end_call_result # NoEndCall =>
    /\ ~end_call_result.raises
    /\ end_call_result.value => end_call_result.resp = "accepted"

\* What bridge b may name in what it sends: the stream and the call of its
\* own start frame.
OwnIds(b) == {StartOf(b).streamSid, StartOf(b).callSid}

(***************************************************************************)
(* C30: with two bridges serving different calls, a step changes the       *)
(* fields of one bridge only; every frame a bridge sends names its own     *)
(* stream and every end_call its own call; its identifiers are those of    *)
(* its own start frame; and the two bridges never use the same session.    *)
(***************************************************************************)
C30_BridgesDoNotInterfere ==
  /\ [][\E b \in BridgeIds : \A o \in BridgeIds \ {b} : bridges'[o] = bridges[o]]_vars
  /\ [](\A b \in BridgeIds :
          /\ \A i \in 1..Len(bridges[b].out) : bridges[b].out[i].sid \in OwnIds(b)
          /\ bridges[b].pc # "handshake" =>
               /\ bridges[b].stream_sid = StartOf(b).streamSid
               /\ bridges[b].call_sid = StartOf(b).callSid)
  /\ [](\A a, b \in BridgeIds :
          (a # b /\ bridges[a].session # "None" /\ bridges[b].session # "None") =>
            bridges[a].session # bridges[b].session)

C30_Witness ==
  /\ bridges["A"].pc = "closed"
  /\ bridges["B"].pc = "active"
  /\ bridges["A"].terminate_call
  /\ ~bridges["B"].terminate_call
  /\ bridges["A"].turn_counter = 0
  /\ bridges["B"].turn_counter = 2
  /\ session_service = {"CA1", "CA2"}

(***************************************************************************)
(* C34 (as claimed): once the agent pump has processed a TurnComplete with *)
(* the latch set, it consumes no further inference event.                  *)
(***************************************************************************)
C34_PumpFinishesAfterHangup ==
  [][AgentHungUp => ~AgentConsumes]_vars

(***************************************************************************)
(* C35 (as claimed): when live_events ends, the agent pump finishes; it    *)
(* is never iterating the exhausted stream again without suspending.       *)
(***************************************************************************)
C35_StreamEndFinishesPump ==
  agentPc = "spinning" => FALSE

IsAudio(x) == x = "audio"
Audios(q) == Len(SelectSeq(q, IsAudio))
\* Nothing but a further close is put on the queue once it was closed.
NothingAfterQueueClose(q) ==
  \A i, j \in 1..Len(q) : (q[i] = "close" /\ i < j) => q[j] = "close"

(***************************************************************************)
(* C36: the twilio pump reading a stop (or closed) frame while ACTIVE      *)
(* closes the input queue and ends; once it has ended it reads no further  *)
(* frame and puts nothing on the queue (the only later entry is the close  *)
(* of the teardown); and no audio or content follows a close on the queue. *)
(***************************************************************************)
C36_StopClosesSinkAndEndsPump ==
  /\ [][(twilioPc = "recv" /\ lastFrame' \in ActiveStop) =>
          /\ twilioPc' = "done"
          /\ sink' = Append(sink, "close")
          /\ live_request_queue' = "closed"]_vars
  /\ [][twilioPc = "done" =>
          /\ twilioPc' = "done"
          /\ UNCHANGED <<lastFrame, nFrames>>
          /\ sink' \in {sink, Append(sink, "close")}]_vars
  /\ []NothingAfterQueueClose(sink)

C36_Witness ==
  /\ lastFrame = Frame("json", "stop")
  /\ twilioPc = "done"
  /\ mainPc = "wait"
  /\ sink = <<"content", "audio", "audio", "close">>
  /\ live_request_queue = "closed"

IsMedia(a) == a.t = "media"
Medias(s) == Len(SelectSeq(s, IsMedia))
\* The step appends to `out` and to the queue, never rewrites them.
AppendOnly ==
  /\ Len(out') >= Len(out) /\ SubSeq(out', 1, Len(out)) = out
  /\ Len(sink') >= Len(sink) /\ SubSeq(sink', 1, Len(sink)) = sink
\* The step in which the twilio pump reads a valid media frame.
ReadsMedia == twilioPc = "recv" /\ nFrames' = nFrames + 1 /\ lastFrame' \in ActiveMedia
\* The step in which the agent pump consumes an event with agent audio that
\* is not the TurnComplete of a hangup.
ConsumesAudio ==
  /\ AgentConsumes
  /\ lastEvent'.part = "audio" /\ lastEvent'.author # "user"
  /\ ~(lastEvent'.turn_complete /\ terminate_call')

TwilioStep ==
  /\ twilioPc \in {"start", "recv"}
  /\ twilioPc' \in {"recv", "done"}
  /\ twilioPc' # twilioPc \/ nFrames' # nFrames
  /\ UNCHANGED <<mainPc, agentPc>>
\* A step of manage_stream's shutdown: the teardown or an except branch.
ShutdownStep == mainPc' # mainPc /\ Phase(mainPc') \in {"DRAINING", "CLOSED"}

(***************************************************************************)
(* C38: the input queue is written (sent to or closed) only by a step of   *)
(* the twilio pump or of manage_stream's shutdown; the websocket is        *)
(* written only by the agent pump and by manage_stream, and by             *)
(* manage_stream only in its shutdown; a step of the twilio pump sends     *)
(* nothing on the websocket and does not close it.                         *)
(***************************************************************************)
C38_WritersPartitioned ==
  /\ [][sink' # sink => (TwilioStep \/ ShutdownStep)]_vars
  /\ [](\A i \in 1..Len(out) : out[i].by \in {"agent", "main"})
  /\ [][(\E i \in 1..Len(NewOut) : NewOut[i].by = "main") => ShutdownStep]_vars
  /\ [][TwilioStep => UNCHANGED <<out, appClosed>>]_vars

C38_Witness ==
  /\ mainPc = "done"
  /\ lastFrame \in ActiveStop
  /\ sink = <<"content", "audio", "close", "close">>
  /\ Medias(out) >= 1
  /\ MainClosedSocket

(***************************************************************************)
(* C39 (as claimed): the inference session is started at most once, with   *)
(* the streamSid of the start frame as its session id, before either pump  *)
(* runs.                                                                   *)
(***************************************************************************)
C39_SessionKeyedByStreamSid ==
  /\ Len(session_started) <= 1
  /\ \A i \in 1..Len(session_started) : session_started[i] = stream_sid
  /\ (agentPc # "idle" \/ twilioPc # "idle") => session_started # <<>>

\* First parts that are not audio/pcm inline data.
NonAudioParts == {"none", "text", "blob_no_mime"}

(***************************************************************************)
(* C40 (as claimed): the agent pump sends a media frame only for an event  *)
(* not authored by the user whose first part is audio/pcm inline data; an  *)
(* event with no content, a non-audio first part or author "user" (and     *)
(* nothing else to do for it) sends nothing and leaves the pump running.   *)
(***************************************************************************)
C40_OnlyAgentAudioIsForwarded ==
  [][AgentConsumes =>
       /\ Medias(NewOut) > 0 => (lastEvent'.author # "user" /\ lastEvent'.part = "audio")
       /\ ( /\ lastEvent'.part \in NonAudioParts \/ lastEvent'.author = "user"
            /\ ~lastEvent'.turn_complete /\ ~lastEvent'.interrupted ) =>
            (NewOut = <<>> /\ agentPc' = "iter")]_vars

(***************************************************************************)
(* C31: for every record the call-origination path encodes into the        *)
(* lead_info blob, decoding that blob in the bridge does not fail and      *)
(* yields a record equal to it.                                            *)
(***************************************************************************)
C31_DecodeInvertsEncode ==
  codec.stage = "decoded" =>
    /\ ~codec.decoded.raises
    /\ ~codec.decoded.none
    /\ codec.decoded.value = codec.record

C31_Witness ==
  /\ codec.stage = "decoded"
  /\ Len(codec.record) = 2
  /\ codec.record[1][2] = <<63, 97>>
  /\ codec.record[2][2] = <<34, 92>>
  /\ \E i \in 1..Len(codec.blob) : codec.blob[i] = 95
  /\ codec.decoded.value = codec.record

(***************************************************************************)
(* C32: converting the buffer x again, right away or after other buffers   *)
(* were converted, gives the same mu-law payload as the first time, and    *)
(* converting that payload back gives the same PCM as the first time.      *)
(***************************************************************************)
C32_TranscodingStateless ==
  (audio.last_in = audio.x /\ audio.nx >= 1) =>
    /\ audio.stage \in {"narrow", "wide"} => audio.payload = audio.first_payload
    /\ audio.stage = "wide" => audio.pcm = audio.first_pcm

C32_Witness ==
  /\ audio.stage = "wide"
  /\ audio.n = 3
  /\ audio.nx = 2
  /\ audio.other
  /\ audio.last_in = audio.x
  /\ Len(audio.x) = 4
  /\ audio.r = ADK_TTS_OUTPUT_SAMPLE_RATE
  /\ Len(audio.pcm) = 4
  /\ audio.pcm = audio.first_pcm

\* The number of samples by which a round trip at the bridge's own rates
\* (24000 Hz down to 8000 Hz and back) can differ from the input.
ResamplingTolerance == (ADK_TTS_OUTPUT_SAMPLE_RATE \div TWILIO_SAMPLE_RATE) - 1
Distance(a, b) == IF a >= b THEN a - b ELSE b - a

(***************************************************************************)
(* C33 (as claimed): for every PCM buffer and every rate r, converting the *)
(* buffer from r to mu-law and back gives a PCM buffer with the number of  *)
(* samples of the input, within the resampling tolerance.                  *)
(***************************************************************************)
C33_RoundTripKeepsSampleCount ==
  audio.stage = "wide" =>
    Distance(Len(audio.pcm), Len(audio.last_in)) <= ResamplingTolerance

====
